---- MODULE Spec2Model ----
(***************************************************************************)
(* yamlrun: the Yaml object of src/yamlrun/yaml.py and the run() driver of *)
(* src/yamlrun/__main__.py.                                                *)
(*                                                                         *)
(* A Python str is a sequence of one-character strings.  A Python value is *)
(* a tagged record: VStr (str), VInt (int), VList (list), VDict (dict, as  *)
(* the insertion-ordered sequence of its <<key, value>> items).            *)
(***************************************************************************)
EXTENDS Integers, Sequences, FiniteSets, TLC

VARIABLES
    pc,          \* position of the run: which method, which statement
    doc,         \* the loaded YAML document (the dict the Yaml object is)
    path,        \* os.path.abspath(self.path), as its list of components
    noenv,       \* self.noenv
    environ,     \* os.environ
    variables,   \* self.variables, or NoTable before parse_structure
    parsed,      \* parse_variables: the local dict `parsed`
    idx,         \* index of the loop the run is in
    cur,         \* value a loop body has just computed
    cwd,         \* run_script: the resolved working directory
    commands,    \* run_script: the resolved command lines
    spawned,     \* argv lists handed to subprocess.run so far, in order
    running,     \* TRUE while a spawned subprocess has not terminated
    output,      \* merged stdout/stderr of the last terminated subprocess
    failure,     \* the exception that ended the run, or NoError
    template,    \* _replace_variables: parsed_str as it was passed
    parsed_str,  \* _replace_variables: parsed_str as the loop rewrites it
    add_quotes,  \* _replace_variables: add_quotes
    repl         \* _replace_variables: var_replacements, in insertion order

vars == <<pc, doc, path, noenv, environ, variables, parsed, idx, cur, cwd,
          commands, spawned, running, output, failure, template,
          parsed_str, add_quotes, repl>>

----------------------------------------------------------------------------
(* Characters and values *)

Digits == {"0", "1", "2", "3", "4", "5", "6", "7", "8", "9"}

Letters ==
    {"a", "b", "c", "d", "e", "f", "g", "h", "i", "j", "k", "l", "m",
     "n", "o", "p", "q", "r", "s", "t", "u", "v", "w", "x", "y", "z",
     "A", "B", "C", "D", "E", "F", "G", "H", "I", "J", "K", "L", "M",
     "N", "O", "P", "Q", "R", "S", "T", "U", "V", "W", "X", "Y", "Z"}

\* the class [\w_] of the patterns
WordChars == Letters \cup Digits \cup {"_"}

\* the class (?:"|')
QuoteChars == {"\"", "'"}

VStr(s) == [t |-> "str", s |-> s]
VInt(n) == [t |-> "int", n |-> n]
VList(xs) == [t |-> "list", items |-> xs]
VDict(ps) == [t |-> "dict", items |-> ps]

IsStr(v) == v.t = "str"
IsInt(v) == v.t = "int"
IsList(v) == v.t = "list"
IsDict(v) == v.t = "dict"

\* an exception propagating out of a call
Raised(kind) == [t |-> "raise", kind |-> kind]
IsRaised(v) == v.t = "raise"

\* a dict with str keys as a function; d[k] = v
DictSet(d, k, v) == [x \in DOMAIN d \cup {k} |-> IF x = k THEN v ELSE d[x]]

EmptyDict == [x \in {} |-> 0]

Max(a, b) == IF a > b THEN a ELSE b

----------------------------------------------------------------------------
(* str methods *)

\* s[i-1:] (1-based i)
From(s, i) == SubSeq(s, i, Len(s))

\* s.startswith(p, i-1)
StartsWithAt(s, p, i) ==
    /\ i + Len(p) - 1 <= Len(s)
    /\ \A j \in 1..Len(p) : s[i + j - 1] = p[j]

StartsWith(s, p) == StartsWithAt(s, p, 1)

EndsWith(s, p) ==
    /\ Len(p) <= Len(s)
    /\ StartsWithAt(s, p, Len(s) - Len(p) + 1)

\* s.replace(old, new) for a non-empty old: the non-overlapping occurrences
\* of old, found left to right, each replaced by new
RECURSIVE ReplaceFrom(_, _, _, _)
ReplaceFrom(s, old, new, i) ==
    LET hits == {j \in i..(Len(s) - Len(old) + 1) : StartsWithAt(s, old, j)}
    IN  IF hits = {} THEN SubSeq(s, i, Len(s))
        ELSE LET j == CHOOSE h \in hits : \A g \in hits : h <= g
             IN  SubSeq(s, i, j - 1) \o new
                    \o ReplaceFrom(s, old, new, j + Len(old))

StrReplace(s, old, new) == ReplaceFrom(s, old, new, 1)

\* s.strip(chars)
RECURSIVE LStrip(_, _)
LStrip(s, chars) ==
    IF s # <<>> /\ Head(s) \in chars THEN LStrip(Tail(s), chars) ELSE s

RECURSIVE RStrip(_, _)
RStrip(s, chars) ==
    IF s # <<>> /\ s[Len(s)] \in chars
    THEN RStrip(SubSeq(s, 1, Len(s) - 1), chars)
    ELSE s

Strip(s, chars) == RStrip(LStrip(s, chars), chars)

\* s.split(sep) for a one-character sep
RECURSIVE SplitFrom(_, _, _, _)
SplitFrom(s, sep, i, acc) ==
    IF i > Len(s) THEN <<acc>>
    ELSE IF s[i] = sep
         THEN <<acc>> \o SplitFrom(s, sep, i + 1, <<>>)
         ELSE SplitFrom(s, sep, i + 1, Append(acc, s[i]))

Split(s, sep) == SplitFrom(s, sep, 1, <<>>)

\* sep.join(parts)
RECURSIVE Join(_, _)
Join(parts, sep) ==
    IF parts = <<>> THEN <<>>
    ELSE IF Len(parts) = 1 THEN parts[1]
    ELSE parts[1] \o sep \o Join(Tail(parts), sep)

\* the decimal digits of a natural number
DigitOf(d) ==
    CASE d = 0 -> "0" [] d = 1 -> "1" [] d = 2 -> "2" [] d = 3 -> "3"
      [] d = 4 -> "4" [] d = 5 -> "5" [] d = 6 -> "6" [] d = 7 -> "7"
      [] d = 8 -> "8" [] d = 9 -> "9"

ValueOfDigit(c) == CHOOSE d \in 0..9 : DigitOf(d) = c

RECURSIVE NatStr(_)
NatStr(n) ==
    IF n < 10 THEN <<DigitOf(n)>> ELSE NatStr(n \div 10) \o <<DigitOf(n % 10)>>

\* str(n) for an int
IntStr(n) == IF n < 0 THEN <<"-">> \o NatStr(0 - n) ELSE NatStr(n)

\* int(s) for a str of decimal digits; any other str raises ValueError
IsDigits(s) == s # <<>> /\ \A i \in 1..Len(s) : s[i] \in Digits

RECURSIVE DigitsValue(_)
DigitsValue(s) ==
    IF s = <<>> THEN 0
    ELSE 10 * DigitsValue(SubSeq(s, 1, Len(s) - 1)) + ValueOfDigit(s[Len(s)])

----------------------------------------------------------------------------
(* The patterns of _replace_variables *)

\* [\w_]+ from position i: the position after the run (i when it is empty)
RECURSIVE WordEnd(_, _)
WordEnd(s, i) ==
    IF i <= Len(s) /\ s[i] \in WordChars THEN WordEnd(s, i + 1) ELSE i

\* \d+ from position i
RECURSIVE DigitEnd(_, _)
DigitEnd(s, i) ==
    IF i <= Len(s) /\ s[i] \in Digits THEN DigitEnd(s, i + 1) ELSE i

IsAt(s, i, c) == i <= Len(s) /\ s[i] = c

\* (?:\[ quotes [\w_]+ quotes \]): the position after it, or 0
QuotedSuffixEnd(s, i) ==
    IF IsAt(s, i, "[") /\ i + 1 <= Len(s) /\ s[i + 1] \in QuoteChars
    THEN LET e == WordEnd(s, i + 2)
         IN  IF e > i + 2 /\ e <= Len(s) /\ s[e] \in QuoteChars
                /\ IsAt(s, e + 1, "]")
             THEN e + 2 ELSE 0
    ELSE 0

\* (?:\[\$[\w_]+\]): the position after it, or 0
NestedSuffixEnd(s, i) ==
    IF IsAt(s, i, "[") /\ IsAt(s, i + 1, "$")
    THEN LET e == WordEnd(s, i + 2)
         IN  IF e > i + 2 /\ IsAt(s, e, "]") THEN e + 1 ELSE 0
    ELSE 0

\* (?:\[\d+\]): the position after it, or 0
DigitSuffixEnd(s, i) ==
    IF IsAt(s, i, "[")
    THEN LET e == DigitEnd(s, i + 1)
         IN  IF e > i + 1 /\ IsAt(s, e, "]") THEN e + 1 ELSE 0
    ELSE 0

\* one iteration of alphanums_in_square_brackets: its alternatives in order
SuffixEnd(s, i) ==
    IF QuotedSuffixEnd(s, i) # 0 THEN QuotedSuffixEnd(s, i)
    ELSE IF NestedSuffixEnd(s, i) # 0 THEN NestedSuffixEnd(s, i)
    ELSE DigitSuffixEnd(s, i)

\* alphanums_in_square_brackets, (?: ... )*, greedy: the position after it
RECURSIVE ChainEnd(_, _)
ChainEnd(s, i) ==
    LET e == SuffixEnd(s, i) IN IF e = 0 THEN i ELSE ChainEnd(s, e)

\* \$[\w_]+ alphanums_in_square_brackets at i: the position after, or 0
BareEnd(s, i) ==
    IF IsAt(s, i, "$")
    THEN LET e == WordEnd(s, i + 1)
         IN  IF e > i + 1 THEN ChainEnd(s, e) ELSE 0
    ELSE 0

\* BracedEnd with the chain read after the closing brace instead of before it
BracedEndAfterBrace(s, i) ==
    IF IsAt(s, i, "$") /\ IsAt(s, i + 1, "{")
    THEN LET e == WordEnd(s, i + 2)
         IN  IF e > i + 2 /\ IsAt(s, e, "}")
             THEN ChainEnd(s, e + 1) ELSE 0
    ELSE 0

\* \${[\w_]+ alphanums_in_square_brackets } at i: the position after, or 0.
\* No shorter word or chain can be followed by "}", so the greedy attempt
\* is the only one.
BracedEnd(s, i) ==
    IF IsAt(s, i, "$") /\ IsAt(s, i + 1, "{")
    THEN LET e == WordEnd(s, i + 2)
         IN  IF e > i + 2 /\ IsAt(s, ChainEnd(s, e), "}")
             THEN ChainEnd(s, e) + 1 ELSE 0
    ELSE 0

\* `pattern` at i: the bare alternative first, then the braced one
PatternEnd(s, i) ==
    IF BareEnd(s, i) # 0 THEN BareEnd(s, i) ELSE BracedEnd(s, i)

\* re.findall(pattern, s): the matches left to right, without overlap
RECURSIVE FindAllFrom(_, _)
FindAllFrom(s, i) ==
    IF i > Len(s) THEN <<>>
    ELSE LET e == PatternEnd(s, i)
         IN  IF e = 0 THEN FindAllFrom(s, i + 1)
             ELSE <<SubSeq(s, i, e - 1)>> \o FindAllFrom(s, e)

FindAll(s) == FindAllFrom(s, 1)

\* (?:'|")* from position i
RECURSIVE QuotesEnd(_, _)
QuotesEnd(s, i) ==
    IF i <= Len(s) /\ s[i] \in QuoteChars THEN QuotesEnd(s, i + 1) ELSE i

\* (.*?)(?:'|")*\] from position i: the first j >= i (lazy) from which
\* quotes and then "]" follow, with no newline in s[i..j-1]; 0 if none
RECURSIVE LazyEnd(_, _)
LazyEnd(s, j) ==
    IF j > Len(s) THEN 0
    ELSE IF IsAt(s, QuotesEnd(s, j), "]") THEN j
    ELSE IF s[j] = "\n" THEN 0
    ELSE LazyEnd(s, j + 1)

\* re.findall('\[(?:\'|")*(.*?)(?:\'|")*\]', var): the groups.  Giving back
\* leading quotes to the group opens no match the greedy attempt lacks.
RECURSIVE SubkeysFrom(_, _)
SubkeysFrom(s, i) ==
    IF i > Len(s) THEN <<>>
    ELSE IF s[i] = "["
         THEN LET b == QuotesEnd(s, i + 1)
                  j == LazyEnd(s, b)
              IN  IF j = 0 THEN SubkeysFrom(s, i + 1)
                  ELSE <<SubSeq(s, b, j - 1)>>
                       \o SubkeysFrom(s, QuotesEnd(s, j) + 1)
         ELSE SubkeysFrom(s, i + 1)

BracketGroups(s) == SubkeysFrom(s, 1)

\* re.findall('^\${?[\w_]+}?', var)[0]
BaseOf(var) ==
    LET b == IF IsAt(var, 2, "{") THEN 3 ELSE 2
        e == WordEnd(var, b)
    IN  SubSeq(var, 1, IF IsAt(var, e, "}") THEN e ELSE e - 1)


----------------------------------------------------------------------------
(* Values: indexing and serialisation *)

\* the chain of line 181-185 could not be followed (the except: pass)
Unresolved == [t |-> "unresolved"]

\* int(k) of line 183: an int is itself, a str of digits is its number,
\* and every other str (ValueError), list or dict (TypeError) raises
CanInt(k) == IsInt(k) \/ (IsStr(k) /\ IsDigits(k.s))
IntOf(k) == IF IsInt(k) THEN k.n ELSE DigitsValue(k.s)

\* seq[n] with Python's negative indices, for -len <= n < len
InRange(n, len) == 0 - len <= n /\ n < len
PyIndex(seq, n) == IF n >= 0 THEN seq[n + 1] ELSE seq[Len(seq) + n + 1]

\* d[k] for a dict given as its items, k a str
HasKey(items, key) == \E i \in 1..Len(items) : items[i][1] = key
GetKey(items, key) ==
    items[CHOOSE i \in 1..Len(items) : items[i][1] = key][2]

\* one iteration of the loop of line 181: replacement[int(k)] for a list,
\* replacement[k] otherwise
Subscript(replacement, k) ==
    IF replacement = Unresolved THEN Unresolved
    ELSE IF IsList(replacement)
    THEN IF CanInt(k) /\ InRange(IntOf(k), Len(replacement.items))
         THEN PyIndex(replacement.items, IntOf(k))
         ELSE Unresolved
    ELSE IF IsDict(replacement)
    THEN IF IsStr(k) /\ HasKey(replacement.items, k.s)
         THEN GetKey(replacement.items, k.s)
         ELSE Unresolved
    ELSE IF IsStr(replacement)
    THEN IF IsInt(k) /\ InRange(k.n, Len(replacement.s))
         THEN VStr(<<PyIndex(replacement.s, k.n)>>)
         ELSE Unresolved
    ELSE Unresolved

\* lines 179-185: subkeys[0], then each further subkey applied in order
RECURSIVE FollowChain(_, _)
FollowChain(replacement, keys) ==
    IF keys = <<>> THEN replacement
    ELSE FollowChain(Subscript(replacement, Head(keys)), Tail(keys))

\* json.dumps of a str: quoted, with ", \ and newline escaped
RECURSIVE JsonEscape(_)
JsonEscape(s) ==
    IF s = <<>> THEN <<>>
    ELSE (CASE Head(s) = "\"" -> <<"\\", "\"">>
            [] Head(s) = "\\" -> <<"\\", "\\">>
            [] Head(s) = "\n" -> <<"\\", "n">>
            [] OTHER -> <<Head(s)>>) \o JsonEscape(Tail(s))

JsonStr(s) == <<"\"">> \o JsonEscape(s) \o <<"\"">>

RECURSIVE Spaces(_)
Spaces(n) == IF n = 0 THEN <<>> ELSE <<" ">> \o Spaces(n - 1)

\* the indent of json.dumps(replacement, indent=4)
Indent == 4

\* json.dumps(v, indent=4), v nested `level` deep
RECURSIVE Dumps(_, _)
RECURSIVE DumpItems(_, _, _)
DumpItems(items, isDict, level) ==
    IF items = <<>> THEN <<>>
    ELSE LET x == Head(items)
             one == IF isDict
                    THEN JsonStr(x[1]) \o <<":", " ">> \o Dumps(x[2], level)
                    ELSE Dumps(x, level)
         IN  <<"\n">> \o Spaces(Indent * level) \o one
             \o (IF Len(items) > 1 THEN <<",">> ELSE <<>>)
             \o DumpItems(Tail(items), isDict, level)

Dumps(v, level) ==
    IF IsStr(v) THEN JsonStr(v.s)
    ELSE IF IsInt(v) THEN IntStr(v.n)
    ELSE IF v.items = <<>> THEN (IF IsList(v) THEN <<"[", "]">> ELSE <<"{", "}">>)
    ELSE <<(IF IsList(v) THEN "[" ELSE "{")>>
         \o DumpItems(v.items, IsDict(v), level + 1)
         \o <<"\n">> \o Spaces(Indent * level)
         \o <<(IF IsList(v) THEN "]" ELSE "}")>>

\* str(v) of line 199
PyStr(v) == IF IsStr(v) THEN v.s ELSE IntStr(v.n)

----------------------------------------------------------------------------
(* Yaml._environ and Yaml._replace_variables *)

\* Environ without the noenv test
EnvironAlways(name, env, nv) ==
    IF name \in DOMAIN env THEN VStr(env[name]) ELSE VStr(<<>>)

\* self._environ(name): os.environ.get(name, '') unless noenv
Environ(name, env, nv) ==
    IF ~nv
    THEN (IF name \in DOMAIN env THEN VStr(env[name]) ELSE VStr(<<>>))
    ELSE VStr(<<>>)

\* self.variables.get(key, self._environ(key)) of line 176
Lookup(key, tbl, env, nv) ==
    IF key \in DOMAIN tbl THEN tbl[key] ELSE Environ(key, env, nv)

\* lines 173-176: a subkey that starts with "$" becomes the variable's value
SubkeyValue(key, tbl, env, nv) ==
    IF StartsWith(key, <<"$">>)
    THEN Lookup(Strip(key, {"$", "{", "}"}), tbl, env, nv)
    ELSE VStr(key)

\* lines 169-171: [base] + the bracket groups of var
SubkeysOf(var) == <<BaseOf(var)>> \o BracketGroups(var)

\* lines 166-188 for one var: the replacement found, or Unresolved
ResolveVar(var, tbl, env, nv) ==
    LET subkeys == [i \in 1..Len(SubkeysOf(var)) |->
                        SubkeyValue(SubkeysOf(var)[i], tbl, env, nv)]
    IN  FollowChain(subkeys[1], Tail(subkeys))

\* the keys of {k: k for k in parsed_variables}: first occurrences, in order
RECURSIVE DictKeys(_, _)
DictKeys(found, seen) ==
    IF found = <<>> THEN <<>>
    ELSE IF Head(found) \in seen THEN DictKeys(Tail(found), seen)
    ELSE <<Head(found)>> \o DictKeys(Tail(found), seen \cup {Head(found)})

\* lines 163-188: var_replacements as its items <<var, replacement>>; a var
\* whose chain raised keeps itself
VarReplacements(s, tbl, env, nv) ==
    LET keys == DictKeys(FindAll(s), {})
    IN  [i \in 1..Len(keys) |->
            LET r == ResolveVar(keys[i], tbl, env, nv)
            IN  <<keys[i], IF r = Unresolved THEN VStr(keys[i]) ELSE r>>]

\* lines 194-199: the text a replacement is written as
Serialize(replacement, aq) ==
    IF IsList(replacement) \/ IsDict(replacement)
    THEN (IF aq THEN <<"'">> \o Dumps(replacement, 0) \o <<"'">>
                ELSE Dumps(replacement, 0))
    ELSE PyStr(replacement)

\* lines 191-200: one iteration of the replacement loop on parsed_str ps.
\* A parsed_str that is no longer a str has no replace(): AttributeError.
ReplaceOne(ps, var, replacement, aq) ==
    IF IsRaised(ps) THEN ps
    ELSE IF ps = VStr(var) /\ ~aq THEN replacement
    ELSE IF IsStr(ps) THEN VStr(StrReplace(ps.s, var, Serialize(replacement, aq)))
    ELSE Raised("AttributeError")

\* lines 190-200: the loop over var_replacements.items()
RECURSIVE ReplaceLoop(_, _, _)
ReplaceLoop(ps, items, aq) ==
    IF items = <<>> THEN ps
    ELSE ReplaceLoop(ReplaceOne(ps, Head(items)[1], Head(items)[2], aq),
                     Tail(items), aq)

\* self._replace_variables(parsed_str, add_quotes) with self.variables = tbl
ReplaceVariables(s, aq, tbl, env, nv) ==
    ReplaceLoop(VStr(s), VarReplacements(s, tbl, env, nv), aq)

\* VariablesAfterReplace with setdefault in place of get: every base name
\* looked up and not found is stored, with the empty string
RECURSIVE StoreMissing(_, _, _, _)
StoreMissing(found, tbl, env, nv) ==
    IF found = <<>> THEN tbl
    ELSE LET key == Strip(BaseOf(Head(found)), {"$", "{", "}"})
         IN  StoreMissing(Tail(found),
                          IF key \in DOMAIN tbl THEN tbl
                          ELSE DictSet(tbl, key, VStr(<<>>)),
                          env, nv)

VariablesAfterSetdefault(s, tbl, env, nv) == StoreMissing(FindAll(s), tbl, env, nv)

\* self.variables after self._replace_variables(s, ...): the method only
\* reads it (dict.get, line 176) and assigns nothing to it
VariablesAfterReplace(s, tbl, env, nv) == tbl


----------------------------------------------------------------------------
(* dict, os.path and shlex *)

\* an insertion-ordered dict as its items; d[k] = v keeps k's first position
ItemsSet(items, k, v) ==
    IF HasKey(items, k)
    THEN [i \in 1..Len(items) |->
            IF items[i][1] = k THEN <<k, v>> ELSE items[i]]
    ELSE Append(items, <<k, v>>)

\* p.rfind("/") + 1
RECURSIVE AfterLastSlash(_, _)
AfterLastSlash(p, i) ==
    IF i = 0 THEN 0 ELSE IF p[i] = "/" THEN i ELSE AfterLastSlash(p, i - 1)

\* os.path.basename(p)
Basename(p) == From(p, AfterLastSlash(p, Len(p)) + 1)

\* os.path.dirname(p)
Dirname(p) ==
    LET head == SubSeq(p, 1, AfterLastSlash(p, Len(p)))
    IN  IF head # <<>> /\ \E i \in 1..Len(head) : head[i] # "/"
        THEN RStrip(head, {"/"})
        ELSE head

Whitespace == {" ", "\t", "\n", "\r"}

\* shlex.split(s): POSIX rules without comments.  mode is "" outside quotes,
\* or the open quote; tok is the token being read, or NoToken.
NoToken == [t |-> "none"]

RECURSIVE ShlexFrom(_, _, _, _, _)
ShlexFrom(s, i, mode, tok, acc) ==
    LET text == IF tok = NoToken THEN <<>> ELSE tok.s
    IN
    IF i > Len(s)
    THEN IF mode # "" THEN Raised("ValueError")
         ELSE IF tok = NoToken THEN VList(acc)
         ELSE VList(Append(acc, text))
    ELSE IF mode = "'"
    THEN IF s[i] = "'" THEN ShlexFrom(s, i + 1, "", tok, acc)
         ELSE ShlexFrom(s, i + 1, mode, VStr(Append(text, s[i])), acc)
    ELSE IF mode = "\""
    THEN IF s[i] = "\"" THEN ShlexFrom(s, i + 1, "", tok, acc)
         ELSE IF s[i] = "\\"
         THEN IF i = Len(s) THEN Raised("ValueError")
              ELSE IF s[i + 1] \in {"\"", "\\"}
              THEN ShlexFrom(s, i + 2, mode, VStr(Append(text, s[i + 1])), acc)
              ELSE ShlexFrom(s, i + 2, mode,
                             VStr(text \o <<s[i], s[i + 1]>>), acc)
         ELSE ShlexFrom(s, i + 1, mode, VStr(Append(text, s[i])), acc)
    ELSE IF s[i] \in Whitespace
    THEN IF tok = NoToken THEN ShlexFrom(s, i + 1, "", NoToken, acc)
         ELSE ShlexFrom(s, i + 1, "", NoToken, Append(acc, text))
    ELSE IF s[i] \in QuoteChars
    THEN ShlexFrom(s, i + 1, s[i], VStr(text), acc)
    ELSE IF s[i] = "\\"
    THEN IF i = Len(s) THEN Raised("ValueError")
         ELSE ShlexFrom(s, i + 2, "", VStr(Append(text, s[i + 1])), acc)
    ELSE ShlexFrom(s, i + 1, "", VStr(Append(text, s[i])), acc)

\* the argv list, or the ValueError of an open quote or escape
ShlexSplit(s) == ShlexFrom(s, 1, "", NoToken, <<>>)


----------------------------------------------------------------------------
(* Yaml.parse_structure *)

S_yaml == <<"y", "a", "m", "l">>
S_name == <<"_", "n", "a", "m", "e">>
S_path == <<"_", "p", "a", "t", "h">>
S_structure == <<"s", "t", "r", "u", "c", "t", "u", "r", "e">>
S_yaml_path == <<"$">> \o S_yaml \o S_path

\* a key the document does not hold
Absent == [t |-> "absent"]

\* None
PyNone == [t |-> "None"]

\* no exception has ended the run
NoError == [t |-> "ok"]

\* self.get('structure', 'yaml')
StructureOf(d) == IF d.structure = Absent THEN S_yaml ELSE d.structure.s

\* line 81: the validation
StructureAccepted(structure) == EndsWith(structure, S_yaml)

\* WalkUp with the name taken before the step up, not after it
RECURSIVE WalkUpNameFirst(_, _, _, _)
WalkUpNameFirst(segs, k, abspath, paths) ==
    IF k = 0 THEN paths
    ELSE LET up == Dirname(abspath)
         IN  WalkUpNameFirst(segs, k - 1, up,
                             <<<<segs[k], Basename(abspath), up>>>> \o paths)

\* lines 90-93: for var in structure.split('/')[-2::-1], one level up each,
\* inserted at the front of paths
RECURSIVE WalkUp(_, _, _, _)
WalkUp(segs, k, abspath, paths) ==
    IF k = 0 THEN paths
    ELSE LET up == Dirname(abspath)
         IN  WalkUp(segs, k - 1, up, <<<<segs[k], Basename(up), up>>>> \o paths)

\* lines 87-93: paths, the (section, name, path) triples, outermost first
StructurePaths(structure, abspath) ==
    LET segs == Split(structure, "/")
    IN  WalkUp(segs, Len(segs) - 1, abspath,
               <<<<S_yaml, Basename(abspath), abspath>>>>)

\* self.variables.update({f'{s}<suffix>': t[col] for t in paths})
RECURSIVE UpdateFrom(_, _, _, _)
UpdateFrom(tbl, paths, suffix, col) ==
    IF paths = <<>> THEN tbl
    ELSE UpdateFrom(DictSet(tbl, Head(paths)[1] \o suffix, VStr(Head(paths)[col])),
                    Tail(paths), suffix, col)

\* lines 85-96: self.variables after parse_structure
StructureVariables(structure, abspath) ==
    LET paths == StructurePaths(structure, abspath)
        base == DictSet(EmptyDict, S_structure, VStr(structure))
    IN  UpdateFrom(UpdateFrom(base, paths, S_name, 2), paths, S_path, 3)

ParseStructure ==
    /\ pc = "parse_structure"
    /\ IF StructureAccepted(StructureOf(doc))
       THEN /\ variables' = StructureVariables(StructureOf(doc), path)
            /\ pc' = "parse_variables"
            /\ UNCHANGED failure
       ELSE /\ failure' = Raised("ValueError")
            /\ pc' = "failed"
            /\ UNCHANGED variables
    /\ UNCHANGED <<doc, path, noenv, environ, parsed, idx, cur, cwd, commands,
                   spawned, running, output, template, parsed_str, add_quotes,
                   repl>>

----------------------------------------------------------------------------
(* Yaml.parse_variables *)

\* lines 119-121: parsed.update(item) for each item of `variables`
RECURSIVE MergeItems(_, _)
MergeItems(acc, declared) ==
    IF declared = <<>> THEN acc
    ELSE MergeItems(ItemsSet(acc, Head(declared)[1], Head(declared)[2]),
                    Tail(declared))

\* self.get('variables', []): a document without the key holds <<>> here
DeclaredOf(d) == d.variables

\* lines 119-121, and the entry into the loop of line 123
ParseVariablesBegin ==
    /\ pc = "parse_variables"
    /\ parsed' = MergeItems(<<>>, DeclaredOf(doc))
    /\ idx' = 1
    /\ pc' = "pv_resolve"
    /\ UNCHANGED <<doc, path, noenv, environ, variables, cur, cwd, commands,
                   spawned, running, output, failure, template, parsed_str,
                   add_quotes, repl>>

\* lines 124-125: parsed_val, replaced when it is a str
ParsedVal(val, tbl, env, nv) ==
    IF IsStr(val) THEN ReplaceVariables(val.s, FALSE, tbl, env, nv) ELSE val

ParseVariablesResolve ==
    /\ pc = "pv_resolve"
    /\ idx <= Len(parsed)
    /\ cur' = ParsedVal(parsed[idx][2], variables, environ, noenv)
    /\ pc' = "pv_store"
    /\ UNCHANGED <<doc, path, noenv, environ, parsed, idx, cwd,
                   commands, spawned, running, output, failure, template,
                   parsed_str, add_quotes, repl>>
    /\ variables' = IF IsStr(parsed[idx][2])
                    THEN VariablesAfterReplace(parsed[idx][2].s, variables,
                                               environ, noenv)
                    ELSE variables

\* line 126, or the exception _replace_variables raised
ParseVariablesStore ==
    /\ pc = "pv_store"
    /\ IF IsRaised(cur)
       THEN /\ failure' = cur
            /\ pc' = "failed"
            /\ UNCHANGED <<variables, parsed, idx>>
       ELSE /\ variables' = DictSet(variables, parsed[idx][1], cur)
            /\ parsed' = ItemsSet(parsed, parsed[idx][1], cur)
            /\ idx' = idx + 1
            /\ pc' = "pv_resolve"
            /\ UNCHANGED failure
    /\ UNCHANGED <<doc, path, noenv, environ, cur, cwd, commands, spawned,
                   running, output, template, parsed_str, add_quotes, repl>>

\* the loop of line 123 is exhausted; run() goes on to run_script
ParseVariablesEnd ==
    /\ pc = "pv_resolve"
    /\ idx > Len(parsed)
    /\ pc' = "run_script"
    /\ UNCHANGED <<doc, path, noenv, environ, variables, parsed, idx, cur, cwd,
                   commands, spawned, running, output, failure, template,
                   parsed_str, add_quotes, repl>>

----------------------------------------------------------------------------
(* Yaml.run_script and Yaml._run_command *)

\* script.get('cd', '$yaml_path')
CdOf(script) == IF script.cd = Absent THEN S_yaml_path ELSE script.cd.s

\* lines 228-230; a document without `script` gives None, and None.get raises
RunScriptCwd ==
    /\ pc = "run_script"
    /\ IF doc.script = Absent
       THEN /\ failure' = Raised("AttributeError")
            /\ pc' = "failed"
            /\ UNCHANGED <<cwd, idx>>
       ELSE LET r == ReplaceVariables(CdOf(doc.script), FALSE, variables,
                                      environ, noenv)
            IN  IF IsRaised(r)
                THEN /\ failure' = r
                     /\ pc' = "failed"
                     /\ UNCHANGED <<cwd, idx>>
                ELSE /\ cwd' = r
                     /\ idx' = 1
                     /\ pc' = "rs_commands"
                     /\ UNCHANGED failure
    /\ UNCHANGED <<doc, path, noenv, environ, parsed, cur, commands,
                   spawned, running, output, template, parsed_str, add_quotes,
                   repl>>
    /\ variables' = IF doc.script = Absent THEN variables
                    ELSE VariablesAfterReplace(CdOf(doc.script), variables,
                                               environ, noenv)

\* lines 231-233: one element of the list comprehension
RunScriptCommand ==
    /\ pc = "rs_commands"
    /\ idx <= Len(doc.script.run)
    /\ LET r == ReplaceVariables(doc.script.run[idx], TRUE, variables,
                                 environ, noenv)
       IN  IF IsRaised(r)
           THEN /\ failure' = r
                /\ pc' = "failed"
                /\ UNCHANGED <<commands, idx>>
           ELSE /\ commands' = Append(commands, r.s)
                /\ idx' = idx + 1
                /\ UNCHANGED <<failure, pc>>
    /\ UNCHANGED <<doc, path, noenv, environ, parsed, cur, cwd,
                   spawned, running, output, template, parsed_str, add_quotes,
                   repl>>
    /\ variables' = VariablesAfterReplace(doc.script.run[idx], variables,
                                          environ, noenv)

\* line 235: the comprehension is complete, the loop over commands starts
RunScriptLoop ==
    /\ pc = "rs_commands"
    /\ idx > Len(doc.script.run)
    /\ idx' = 1
    /\ pc' = "rs_spawn"
    /\ UNCHANGED <<doc, path, noenv, environ, variables, parsed, cur, cwd,
                   commands, spawned, running, output, failure, template,
                   parsed_str, add_quotes, repl>>

\* subprocess.run(..., stdout=PIPE, stderr=STDOUT) returned: stderr is merged
\* into stdout, and the stderr attribute is None
CompletedProcess(rc, out) ==
    [returncode |-> rc, stdout |-> VStr(out), stderr |-> PyNone]

\* lines 265-267: the RuntimeError of a non-zero exit
CommandError(command_list, r) ==
    [t |-> "raise", kind |-> "RuntimeError", command |-> command_list,
     code |-> r.returncode, detail |-> r.stderr]

\* lines 254-262: shlex.split, then the subprocess is started.  An empty
\* argv (IndexError), a cwd that is not a str (TypeError), or a missing
\* executable or directory (OSError) raises instead.
RunCommandSpawn ==
    /\ pc = "rs_spawn"
    /\ idx <= Len(commands)
    /\ LET command_list == ShlexSplit(commands[idx])
       IN  IF IsRaised(command_list)
           THEN /\ failure' = command_list
                /\ pc' = "failed"
                /\ UNCHANGED <<spawned, running>>
           ELSE IF command_list.items = <<>>
           THEN /\ failure' = Raised("IndexError")
                /\ pc' = "failed"
                /\ UNCHANGED <<spawned, running>>
           ELSE IF ~IsStr(cwd)
           THEN /\ failure' = Raised("TypeError")
                /\ pc' = "failed"
                /\ UNCHANGED <<spawned, running>>
           ELSE \/ /\ spawned' = Append(spawned, command_list.items)
                   /\ running' = TRUE
                   /\ pc' = "rs_wait"
                   /\ UNCHANGED failure
                \* the executable or the directory cwd is not there
                \/ /\ failure' = Raised("OSError")
                   /\ pc' = "failed"
                   /\ UNCHANGED <<spawned, running>>
    /\ UNCHANGED <<doc, path, noenv, environ, variables, parsed, idx, cur, cwd,
                   commands, output, template, parsed_str, add_quotes, repl>>

\* the exit codes and the outputs a subprocess of the model ends with
ExitCodes == {0, 2}
Outputs == {<<>>, <<"o", "o", "p", "s">>}

\* lines 255-267: the subprocess terminated with code rc and output out
RunCommandExit ==
    /\ pc = "rs_wait"
    /\ \E rc \in ExitCodes, out \in Outputs :
         LET r == CompletedProcess(rc, out)
         IN  /\ output' = r.stdout.s
             /\ running' = FALSE
             /\ IF r.returncode # 0
                THEN /\ failure' = CommandError(spawned[Len(spawned)], r)
                     /\ pc' = "failed"
                     /\ UNCHANGED idx
                ELSE /\ idx' = idx + 1
                     /\ pc' = "rs_spawn"
                     /\ UNCHANGED failure
    /\ UNCHANGED <<doc, path, noenv, environ, variables, parsed, cur, cwd,
                   commands, spawned, template, parsed_str, add_quotes, repl>>

\* line 236 after the last command: run_script returns
RunScriptEnd ==
    /\ pc = "rs_spawn"
    /\ idx > Len(commands)
    /\ pc' = "done"
    /\ UNCHANGED <<doc, path, noenv, environ, variables, parsed, idx, cur, cwd,
                   commands, spawned, running, output, failure, template,
                   parsed_str, add_quotes, repl>>


----------------------------------------------------------------------------
(* Yaml._replace_variables, statement by statement *)

\* lines 163-188: findall and the resolution of every var
ReplaceFind ==
    /\ pc = "rv_find"
    /\ repl' = VarReplacements(template, variables, environ, noenv)
    /\ idx' = 1
    /\ pc' = "rv_loop"
    /\ UNCHANGED <<doc, path, noenv, environ, parsed, cur, cwd,
                   commands, spawned, running, output, failure, template,
                   parsed_str, add_quotes>>
    /\ variables' = VariablesAfterReplace(template, variables, environ, noenv)

\* lines 190-200: one iteration of the loop over var_replacements.items()
ReplaceStep ==
    /\ pc = "rv_loop"
    /\ idx <= Len(repl)
    /\ ~IsRaised(parsed_str)
    /\ parsed_str' = ReplaceOne(parsed_str, repl[idx][1], repl[idx][2],
                                add_quotes)
    /\ idx' = idx + 1
    /\ UNCHANGED <<doc, path, noenv, environ, variables, parsed, cur, cwd,
                   commands, spawned, running, output, failure, template,
                   add_quotes, repl, pc>>

\* line 201, or the exception leaves the method
ReplaceReturn ==
    /\ pc = "rv_loop"
    /\ idx > Len(repl) \/ IsRaised(parsed_str)
    /\ cur' = parsed_str
    /\ pc' = "rv_done"
    /\ UNCHANGED <<doc, path, noenv, environ, variables, parsed, idx, cwd,
                   commands, spawned, running, output, failure, template,
                   parsed_str, add_quotes, repl>>

----------------------------------------------------------------------------
(* Bounds and the inputs drawn *)

MaxPieces == 3      \* pieces a drawn template is made of
MaxChain == 2       \* subkey suffixes of a drawn reference
MaxSegments == 3    \* segments of a drawn structure descriptor
MaxDepth == 3       \* components of a drawn document path
MaxVars == 3        \* items of a drawn `variables` list
MaxCmds == 2        \* items of a drawn `run` list

\* all sequences over S of length lo..hi
SeqsUpTo(S, lo, hi) == UNION {[1..n -> S] : n \in lo..hi}

RECURSIVE Concat(_)
Concat(parts) == IF parts = <<>> THEN <<>> ELSE Head(parts) \o Concat(Tail(parts))

N_a == <<"a">>
N_b == <<"b">>
N_c == <<"c">>
N_k == <<"k">>
N_ab == <<"a", "b">>

Pieces ==
    { <<"$", "a">>, <<"$", "b">>, <<"$", "{", "a", "}">>,
      <<"[", "'", "k", "'", "]">>, <<"[", "0", "]">>, <<"[", "$", "b", "]">>,
      <<"b">>, <<" ">> }

PieceTemplates == {Concat(ps) : ps \in SeqsUpTo(Pieces, 0, MaxPieces)}

\* the subkey suffix forms: ['k'], ["k"], [$b], [0], [k]
Suffixes ==
    { <<"[", "'", "k", "'", "]">>, <<"[", "\"", "k", "\"", "]">>,
      <<"[", "$", "b", "]">>, <<"[", "0", "]">>, <<"[", "k", "]">> }

Chains == {Concat(c) : c \in SeqsUpTo(Suffixes, 0, MaxChain)}

RefNames == {N_a, N_c}

\* $name<chain>, ${name<chain>} and ${name}<chain>
BareForm(n, c) == <<"$">> \o n \o c
InnerForm(n, c) == <<"$", "{">> \o n \o c \o <<"}">>
OuterForm(n, c) == <<"$", "{">> \o n \o <<"}">> \o c

FormTemplates ==
    UNION {{BareForm(n, c), InnerForm(n, c), OuterForm(n, c)} :
             n \in RefNames, c \in Chains}

Templates == PieceTemplates \cup FormTemplates

\* the variable tables _replace_variables is run against
Tables ==
    { (N_a :> VStr(<<"x">>)) @@ (N_ab :> VStr(<<"y">>)),
      (N_a :> VDict(<<<<N_k, VList(<<VStr(<<"f">>), VStr(<<"s">>)>>)>>>>))
         @@ (N_b :> VStr(N_k)),
      (N_a :> VStr(<<>>)) @@ (N_b :> VList(<<VStr(<<"x">>)>>)),
      (N_a :> VStr(<<"$", "b">>)) @@ (N_b :> VStr(<<"z">>)),
      (N_a :> VList(<<VDict(<<<<N_k, VInt(7)>>>>), VStr(<<"q", "r">>)>>))
         @@ (N_b :> VInt(0)) }

\* the process environments
Environs ==
    { (N_a :> <<"E">>) @@ (N_c :> <<"e", "n", "v">>) @@ (N_b :> <<"1">>),
      EmptyDict }

\* the variables not in use in a run of one method
Idle ==
    /\ doc = Absent
    /\ path = <<>>
    /\ parsed = <<>>
    /\ idx = 0
    /\ cur = PyNone
    /\ cwd = PyNone
    /\ commands = <<>>
    /\ spawned = <<>>
    /\ running = FALSE
    /\ output = <<>>
    /\ failure = NoError

\* _replace_variables is entered with a template, a table and the flags
InitResolve ==
    /\ Idle
    /\ pc = "rv_find"
    /\ template \in Templates
    /\ parsed_str = VStr(template)
    /\ add_quotes \in BOOLEAN
    /\ variables \in Tables
    /\ environ \in Environs
    /\ noenv \in BOOLEAN
    \* with noenv set an empty environment is never read: one case less
    /\ noenv => environ # EmptyDict
    /\ repl = <<>>

NextResolve == ReplaceFind \/ ReplaceStep \/ ReplaceReturn

SpecResolve == InitResolve /\ [][NextResolve]_vars


----------------------------------------------------------------------------
(* parse_structure alone, over drawn descriptors and document paths *)

\* segment texts of the drawn descriptors
SegmentNames ==
    { S_yaml, <<"m", "y">> \o S_yaml, <<"p">>, <<"q">>, <<>> }

Descriptors ==
    {Join(segs, <<"/">>) : segs \in SeqsUpTo(SegmentNames, 1, MaxSegments)}

\* absolute, normalised paths: "/" and the components joined by "/"
ComponentNames == { <<"d">>, <<"t">> }

DocPaths ==
    {<<"/">> \o Join(comps, <<"/">>) :
        comps \in SeqsUpTo(ComponentNames, 1, MaxDepth)}

Document(structure, declared, script) ==
    [structure |-> structure, variables |-> declared, script |-> script]

\* the state Yaml.__init__ leaves: the document loaded, nothing parsed
Constructed ==
    /\ pc = "parse_structure"
    /\ variables = EmptyDict
    /\ parsed = <<>>
    /\ idx = 0
    /\ cur = PyNone
    /\ cwd = PyNone
    /\ commands = <<>>
    /\ spawned = <<>>
    /\ running = FALSE
    /\ output = <<>>
    /\ failure = NoError
    /\ template = <<>>
    /\ parsed_str = PyNone
    /\ add_quotes = FALSE
    /\ repl = <<>>

InitStructure ==
    /\ Constructed
    /\ path \in DocPaths
    /\ \E d \in {Absent} \cup {VStr(x) : x \in Descriptors} :
         doc = Document(d, <<>>, Absent)
    /\ noenv = FALSE
    /\ environ = EmptyDict

NextStructure == ParseStructure

SpecStructure == InitStructure /\ [][NextStructure]_vars

----------------------------------------------------------------------------
(* run(): parse_structure, parse_variables, run_script *)

\* the items a drawn `variables` list is made of
Declarations ==
    { <<N_a, VStr(<<"1">>)>>,
      <<N_b, VStr(<<"$", "a">>)>>,
      <<N_a, VStr(<<"2">>)>>,
      <<N_c, VList(<<VStr(<<"$", "a">>)>>)>> }

\* the command templates a drawn `run` list is made of
CommandTemplates ==
    { <<"e", " ", "$", "b">>, <<"f", " ", "$", "c", "[", "1", "]">> }

Scripts ==
    {Absent} \cup
    { [cd |-> c, run |-> r] :
        c \in {Absent, VStr(<<"$", "c">>)},
        r \in SeqsUpTo(CommandTemplates, 0, MaxCmds) }

Init ==
    /\ Constructed
    /\ path = <<"/", "d", "/", "t">>
    /\ \E d \in {VStr(<<"p", "/">> \o S_yaml), VStr(<<"p">>)},
          v \in SeqsUpTo(Declarations, 0, MaxVars),
          sc \in Scripts :
         doc = Document(d, v, sc)
    /\ noenv \in BOOLEAN
    /\ environ = (N_a :> <<"E">>)

Next ==
    \/ ParseStructure
    \/ ParseVariablesBegin
    \/ ParseVariablesResolve
    \/ ParseVariablesStore
    \/ ParseVariablesEnd
    \/ RunScriptCwd
    \/ RunScriptCommand
    \/ RunScriptLoop
    \/ RunCommandSpawn
    \/ RunCommandExit
    \/ RunScriptEnd

Spec == Init /\ [][Next]_vars

----------------------------------------------------------------------------
(* Claims about _replace_variables, under SpecResolve *)

Returned == pc = "rv_done"

\* the replacement var_replacements holds for var
ReplacementOf(items, var) ==
    items[CHOOSE i \in 1..Len(items) : items[i][1] = var][2]

\* the template with every reference occurrence, as findall delimits them,
\* replaced at once by the text of its own replacement
RECURSIVE Simultaneous(_, _, _, _)
Simultaneous(s, i, items, aq) ==
    IF i > Len(s) THEN <<>>
    ELSE LET e == PatternEnd(s, i)
         IN  IF e = 0 THEN <<s[i]>> \o Simultaneous(s, i + 1, items, aq)
             ELSE Serialize(ReplacementOf(items, SubSeq(s, i, e - 1)), aq)
                  \o Simultaneous(s, e, items, aq)

Contains(s, sub) == \E i \in 1..(Len(s) + 1) : StartsWithAt(s, sub, i)

\* C1: a template with two or more distinct references resolves to the
\* template with every reference occurrence replaced simultaneously by its
\* own serialized value; no replacement touches the text of another
\* reference or text an earlier replacement inserted.  (Stated of the results
\* that are text; C4 is about the others.)
C1_SimultaneousReplacement ==
    (Returned /\ Len(repl) >= 2 /\ IsStr(cur))
        => cur = VStr(Simultaneous(template, 1, repl, add_quotes))

\* C3: a reference whose subkey chain fails raises nothing and its raw text
\* is still in the output, whatever else the template contains; alone, the
\* result is the template.
C3_FailedChainLeftLiteral ==
    Returned =>
        /\ ~IsRaised(cur)
        /\ \A i \in 1..Len(repl) :
             ResolveVar(repl[i][1], variables, environ, noenv) = Unresolved
                => /\ IsStr(cur)
                   /\ Contains(cur.s, repl[i][1])
                   /\ (repl[i][1] = template => cur = VStr(template))

\* C4: the result is not a str only when add_quotes is false and the
\* template passed is exactly one reference; in every other call it is a str.
C4_NonStringOnlyForWholeReference ==
    (Returned /\ (add_quotes \/ FindAll(template) # <<template>>))
        => IsStr(cur)


\* the environment without the names the table holds
Masked(env, tbl) == [n \in DOMAIN env \ DOMAIN tbl |-> env[n]]

\* every name a drawn template can mention
AllNames == {N_a, N_b, N_c, N_k, N_ab}

\* a template that is one reference to name n, without subkeys
IsPlainRef(s, n) == s = BareForm(n, <<>>) \/ s = InnerForm(n, <<>>)

\* C7: with noenv set the result does not depend on the environment, and a
\* lone reference to a name the table lacks gives the empty string; without
\* noenv a name the table holds takes the table's value, never the
\* environment's.
C7_EnvironmentPolicy ==
    Returned =>
        /\ noenv =>
             /\ \A e \in Environs :
                  cur = ReplaceVariables(template, add_quotes, variables, e, TRUE)
             /\ \A n \in AllNames \ DOMAIN variables :
                  IsPlainRef(template, n) => cur = VStr(<<>>)
        /\ ~noenv =>
             /\ cur = ReplaceVariables(template, add_quotes, variables,
                                       Masked(environ, variables), FALSE)
             /\ \A n \in DOMAIN variables :
                  IsPlainRef(template, n) =>
                     cur = IF add_quotes
                           THEN VStr(Serialize(variables[n], TRUE))
                           ELSE variables[n]

\* C7 witness: noenv is set, the environment holds the name c, the table does
\* not, and "$c" has resolved to the empty string.
C7_Witness ==
    /\ Returned
    /\ noenv
    /\ template = BareForm(N_c, <<>>)
    /\ N_c \in DOMAIN environ
    /\ N_c \notin DOMAIN variables
    /\ cur = VStr(<<>>)

QuotedSuffixes == Suffixes \ {<<"[", "k", "]">>}
QuotedChains == {Concat(c) : c \in SeqsUpTo(QuotedSuffixes, 0, MaxChain)}

----------------------------------------------------------------------------
(* Claims about parse_structure, under SpecStructure *)

StructureParsed == pc = "parse_variables"

Segments == Split(StructureOf(doc), "/")

\* the section the k-th segment from the end is bound under: its own text,
\* and yaml for the last one (k = 0)
SectionOf(k) == IF k = 0 THEN S_yaml ELSE Segments[Len(Segments) - k]

\* the document's k-th ancestor: its path without its last k components,
\* and the root once they are used up
AncestorOf(p, k) ==
    LET comps == Tail(Split(p, "/"))
    IN  <<"/">> \o Join(SubSeq(comps, 1, Max(Len(comps) - k, 0)), <<"/">>)

\* the last component of a path, empty for the root
LastComponent(p) ==
    LET comps == Split(p, "/") IN comps[Len(comps)]

\* the table binds section k to the name and the path of the k-th ancestor
BoundToAncestor(k) ==
    /\ SectionOf(k) \o S_name \in DOMAIN variables
    /\ SectionOf(k) \o S_path \in DOMAIN variables
    /\ variables[SectionOf(k) \o S_name]
          = VStr(LastComponent(AncestorOf(path, k)))
    /\ variables[SectionOf(k) \o S_path] = VStr(AncestorOf(path, k))

C6_TwoPerSegment ==
    StructureParsed =>
        /\ Cardinality(DOMAIN variables) = 2 * Len(Segments) + 1
        /\ \A k \in 0..(Len(Segments) - 1) : BoundToAncestor(k)

SectionsDistinct ==
    \A j, k \in 0..(Len(Segments) - 1) : SectionOf(j) = SectionOf(k) => j = k

\* C6 amended: an accepted descriptor of N segments whose sections (each
\* segment's text, yaml for the last) are pairwise distinct leaves exactly
\* 2N+1 entries: structure, and for every k the section's _name and _path
\* bound to the basename and the absolute path of the k-th ancestor.
\* Segments that share a section share one pair, bound to the innermost of
\* their ancestors.
C6_TwoPerDistinctSection ==
    /\ (StructureParsed /\ SectionsDistinct) =>
          /\ Cardinality(DOMAIN variables) = 2 * Len(Segments) + 1
          /\ variables[S_structure] = VStr(StructureOf(doc))
          /\ \A k \in 0..(Len(Segments) - 1) : BoundToAncestor(k)
    /\ StructureParsed =>
          /\ Cardinality(DOMAIN variables)
                = 2 * Cardinality({SectionOf(k) : k \in 0..(Len(Segments) - 1)})
                  + 1
          /\ \A k \in 0..(Len(Segments) - 1) :
                (\A j \in 0..(k - 1) : SectionOf(j) # SectionOf(k))
                   => BoundToAncestor(k)

\* C6 witness: p/q/yaml for the document /d/t/t has bound p to /d, q to /d/t
\* and yaml to the document, seven entries in all.
C6_Witness ==
    /\ StructureParsed
    /\ doc.structure = VStr(<<"p", "/", "q", "/">> \o S_yaml)
    /\ path = <<"/", "d", "/", "t", "/", "t">>
    /\ Cardinality(DOMAIN variables) = 7
    /\ variables[<<"p">> \o S_path] = VStr(<<"/", "d">>)
    /\ variables[<<"q">> \o S_name] = VStr(<<"t">>)
    /\ variables[S_yaml \o S_path] = VStr(path)

----------------------------------------------------------------------------
(* Claims about run(), under Spec *)

\* the position of the last item of `declared` that declares key
LastPosition(declared, key) ==
    CHOOSE i \in 1..Len(declared) :
        /\ declared[i][1] = key
        /\ \A j \in (i + 1)..Len(declared) : declared[j][1] # key

\* the table document order gives: the structure bindings, then the items at
\* positions 1..n, each resolved against the table of the items before it
RECURSIVE DocumentOrderTable(_, _, _, _, _)
DocumentOrderTable(declared, n, seed, env, nv) ==
    IF n = 0 THEN seed
    ELSE LET before == DocumentOrderTable(declared, n - 1, seed, env, nv)
         IN  DictSet(before, declared[n][1],
                     ParsedVal(declared[n][2], before, env, nv))

\* C2: the declaration at position i is resolved against the structure
\* bindings and the resolved declarations at positions < i only; a name
\* declared or redeclared later is never seen with its later value.
C2_DocumentOrder ==
    pc = "pv_store" =>
        LET declared == DeclaredOf(doc)
            i == LastPosition(declared, parsed[idx][1])
            seed == StructureVariables(StructureOf(doc), path)
        IN  cur = ParsedVal(declared[i][2],
                            DocumentOrderTable(declared, i - 1, seed,
                                               environ, noenv),
                            environ, noenv)

\* C8: the commands are spawned one at a time in document order, none after
\* a non-zero exit, and the failure carries the command, its exit code and
\* its captured output.
C8_SequentialAndReported ==
    /\ Len(spawned) <= Len(commands)
    /\ \A i \in 1..Len(spawned) : VList(spawned[i]) = ShlexSplit(commands[i])
    /\ running => (pc = "rs_wait" /\ Len(spawned) = idx)
    /\ (IsRaised(failure) /\ failure.kind = "RuntimeError") =>
         /\ ~running
         /\ Len(spawned) = idx
         /\ failure.command = spawned[idx]
         /\ failure.code # 0
         /\ failure.detail = VStr(output)

\* C10: only parse_structure and the insertion of parse_variables change the
\* table: the resolve calls of parse_variables and all of run_script leave
\* its names and values as they were, and the insertion binds just the
\* resolved variable.
C10_TableFrame ==
    [][ /\ pc \in {"pv_resolve", "run_script", "rs_commands", "rs_spawn",
                   "rs_wait"}
           => variables' = variables
        /\ pc = "pv_store" /\ ~IsRaised(cur)
           => variables' = DictSet(variables, parsed[idx][1], cur) ]_vars

\* C10 witness: run_script has finished a run whose commands mention $b,
\* which the table filled by parse_variables does not hold, and $c[1], whose
\* chain fails on the one-element list c.
C10_Witness ==
    /\ pc = "done"
    /\ Len(spawned) = 2
    /\ N_a \in DOMAIN variables
    /\ N_b \notin DOMAIN variables
    /\ N_c \in DOMAIN variables
    /\ doc.script.run = << <<"e", " ", "$", "b">>,
                           <<"f", " ", "$", "c", "[", "1", "]">> >>
    /\ commands[2] = doc.script.run[2]


====
